---- MODULE Spec2Model ----
(***************************************************************************)
(* LinksLogic front end: the voice-capture-to-submission pipeline and the  *)
(* request guard of the three application variants of the repository:      *)
(*   "general"   GeneralApp            (src/src/App.tsx)                   *)
(*   "columbiaA" ColumbiaApp, hooks at top level  (src/unnamed/part_000)   *)
(*   "columbiaB" ColumbiaApp + ColumbiaVoiceInput (src/unnamed/part_001)   *)
(*                                                                         *)
(* Execution is single-threaded and event-driven: one action is one        *)
(* callback (a click, a recognition event, a timer expiry, a fetch         *)
(* continuation) together with the re-render it causes and the effects     *)
(* that re-render runs.  Text is a sequence of one-character strings.      *)
(*                                                                         *)
(* Spec is the application; RemountSpec is the application with the        *)
(* recognition objects of unmounted voice components followed; RenderSpec  *)
(* is the answer renderer applied to the responses it can be given.        *)
(***************************************************************************)
EXTENDS Naturals, Sequences, FiniteSets, TLC

VARIABLES
  variant,    \* which application variant is running (fixed by Init)
  api,        \* state of useGolfRulesAPI / useColumbiaRulesAPI
  net,        \* the POST /api/ask fetches that are outstanding
  nextId,     \* number of the next fetch
  ui,         \* activeTab and textInput of the main component
  voice,      \* React state of the voice component (hook + hasSubmitted)
  rec,        \* the SpeechRecognition object and the closure variables of its callbacks
  orphans,    \* the SpeechRecognition objects of unmounted voice components that still
              \* capture or still have a timer pending
  hist,       \* history of the run: what the last calls did, per-session counters
  view        \* the response handed to the answer renderer and what it rendered from it

vars == <<variant, api, net, nextId, ui, voice, rec, orphans, hist, view>>

-----------------------------------------------------------------------------
(* Bounds of the model *)

\* fetches issued in one run
MaxRequests == 2
\* recognition events delivered in one run
MaxEvents == 2
\* lines of an answer text
MaxLines == 3
\* recognition objects that outlive their voice component at one time
MaxOrphans == 1

-----------------------------------------------------------------------------
(* Program constants *)

Variants == {"general", "columbiaA", "columbiaB"}

\* the variants whose askQuestion has the in-progress guard and the abort timer
Guarded(v) == v \in {"general", "columbiaB"}

\* the variants whose voice hook lives in a child component mounted only on the voice tab
ChildVoice(v) == v \in {"general", "columbiaB"}

NullError == "null"
NoResponse == [none |-> TRUE]

TimeoutMessage == "Request timed out"

NetworkMessage(v) ==
  IF v = "columbiaA" THEN "Network error - please check your connection"
  ELSE "Network error. Please check your connection."

GenericFailure(v) ==
  IF v = "columbiaA" THEN "Failed to get rules information"
  ELSE "Failed to get response"

NullVoiceError == << >>
StartFailedMessage == <<"Failed to start voice recognition">>

VoiceErrorPrefix(v) ==
  IF v = "columbiaA" THEN "Speech recognition error: "
  ELSE "Voice recognition error: "

-----------------------------------------------------------------------------
(* Text *)

Space == " "
Newline == "\n"
Tab == "\t"
CarriageReturn == "\r"
FormFeed == "\f"
VerticalTab == ""

\* WhiteSpace and LineTerminator of ECMAScript, which trim() removes, as far as
\* they are ASCII: the texts of the model are ASCII
WhiteSpace == {Space, Newline, Tab, CarriageReturn, FormFeed, VerticalTab}

RECURSIVE TrimStart(_)
TrimStart(s) ==
  IF s = << >> THEN << >>
  ELSE IF Head(s) \in WhiteSpace THEN TrimStart(Tail(s)) ELSE s

RECURSIVE TrimEnd(_)
TrimEnd(s) ==
  IF s = << >> THEN << >>
  ELSE IF s[Len(s)] \in WhiteSpace THEN TrimEnd(SubSeq(s, 1, Len(s) - 1)) ELSE s

\* String.prototype.trim
Trim(s) == TrimEnd(TrimStart(s))

-----------------------------------------------------------------------------
(* The program state as one record, so that handlers compose as functions *)

\* closure is the state as the committed render saw it: the callbacks and the
\* effects created by that render read their state from it, while the setters they
\* call change the other fields.  left is the exit path by which a request has
\* left askQuestion in the step under way
Cur ==
  [variant |-> variant, api |-> api, net |-> net, nextId |-> nextId,
   ui |-> ui, voice |-> voice, rec |-> rec, orphans |-> orphans, hist |-> hist,
   closure |-> [api |-> api, voice |-> voice, ui |-> ui], left |-> "none"]

\* the step that takes the program to state s: the updates that the callbacks of
\* the step have queued are rendered and committed (a run issues at most
\* MaxRequests fetches)
Commit(s) ==
  /\ s.nextId <= MaxRequests + 1
  /\ variant' = s.variant
  /\ api' = s.api
  /\ net' = s.net
  /\ nextId' = s.nextId
  /\ ui' = s.ui
  /\ voice' = s.voice
  /\ rec' = s.rec
  /\ orphans' = s.orphans
  /\ hist' = s.hist
  /\ view' = view

-----------------------------------------------------------------------------
(* Rules API hook: useGolfRulesAPI / useColumbiaRulesAPI *)

\* the texts of the questions the GET /api/quick-questions list offers: the server
\* sends any strings, here a question and a blank string
QuickTexts == {<<"k">>, <<Space>>}

\* values of the optional error field of a response body
Undefined == "undefined"
Falsy(x) == x \in {"", Undefined}

\* the JSON bodies the server can answer a question q with: an answer with the
\* fields the renderer reads (rule_type, confidence), and failures with or without
\* an error text
Payloads(q) ==
  {[success |-> TRUE, error |-> Undefined, answer |-> "answer", question |-> q,
    rule_type |-> "official", confidence |-> "high"]}
  \cup {[success |-> FALSE, error |-> e, answer |-> "", question |-> q,
          rule_type |-> Undefined, confidence |-> Undefined] :
          e \in {"club not found", "", Undefined}}

\* if (requestInProgress || loading) return: the flags of the render that created
\* the callback (useCallback with the dependencies [requestInProgress, loading])
Blocked(s) ==
  Guarded(s.variant) /\ (s.closure.api.requestInProgress \/ s.closure.api.loading)

\* the state updates made before the fetch
MarkInFlight(s) ==
  IF Guarded(s.variant)
  THEN [s.api EXCEPT !.requestInProgress = TRUE, !.loading = TRUE, !.error = NullError]
  ELSE [s.api EXCEPT !.loading = TRUE, !.error = NullError, !.response = NoResponse]

\* fetch(POST /api/ask): a new outstanding request, with the abort timer where the code sets one
Fetch(s, question) ==
  [id |-> s.nextId, question |-> question, phase |-> "headers",
   timer |-> Guarded(s.variant)]

askQuestion(s, question) ==
  IF Blocked(s)
  THEN [s EXCEPT !.hist.lastCall = "dropped"]
  ELSE [s EXCEPT !.api = MarkInFlight(s),
                 !.net = s.net \cup {Fetch(s, question)},
                 !.nextId = s.nextId + 1,
                 !.hist.lastCall = "accepted",
                 !.hist.lastExit = s.left]

\* if (data.success) ... else ...
OnData(s, data) ==
  IF data.success
  THEN [s.api EXCEPT !.response = data,
                     !.error = IF Guarded(s.variant) THEN NullError ELSE s.api.error]
  ELSE [s.api EXCEPT !.error = IF Falsy(data.error) THEN GenericFailure(s.variant)
                                ELSE data.error]

\* a catch block that does not look at err.name
OnExceptionAlwaysNetwork(s, name) ==
  [s.api EXCEPT !.error = NetworkMessage(s.variant)]

\* catch (err): err.name is the name of the exception thrown
OnException(s, name) ==
  IF Guarded(s.variant) /\ name = "AbortError"
  THEN [s.api EXCEPT !.error = TimeoutMessage]
  ELSE [s.api EXCEPT !.error = NetworkMessage(s.variant)]

\* a finally block that forgets setRequestInProgress(false)
FinallyKeepsInProgress(a) ==
  [a EXCEPT !.loading = FALSE]

\* finally { setLoading(false); setRequestInProgress(false) }
Finally(a) ==
  [a EXCEPT !.loading = FALSE, !.requestInProgress = FALSE]

\* an exit that issues the request again when it did not succeed
LeaveAndRetry(s, r, a, exit) ==
  IF exit = "success"
  THEN [s EXCEPT !.api = Finally(a), !.net = s.net \ {r}, !.left = exit,
                 !.hist.lastExit = exit, !.hist.lastCall = "none"]
  ELSE [s EXCEPT !.api = a,
                 !.net = (s.net \ {r}) \cup {Fetch(s, r.question)},
                 !.nextId = s.nextId + 1,
                 !.left = exit,
                 !.hist.lastExit = exit, !.hist.lastCall = "none"]

\* the request r leaves askQuestion with the hook state a, by exit path exit
Leave(s, r, a, exit) ==
  [s EXCEPT !.api = Finally(a), !.net = s.net \ {r}, !.left = exit,
            !.hist.lastExit = exit, !.hist.lastCall = "none"]

-----------------------------------------------------------------------------
(* Voice recognition hook: useVoiceRecognition, and the submit effect *)

\* event.results from event.resultIndex on, as the platform delivers them: a final
\* result, an interim result, an interim result without text, a final and an interim
Final(text) == [transcript |-> text, isFinal |-> TRUE]
Interim(text) == [transcript |-> text, isFinal |-> FALSE]
Events ==
  {<<Final(<<"a">>)>>, <<Interim(<<"b">>)>>, <<Interim(<< >>)>>,
   <<Final(<<"a">>), Interim(<<"b">>)>>}

ErrorCodes == {"no-speech"}

\* the loop over event.results: the concatenated final (or interim) texts
RECURSIVE Collect(_, _)
Collect(results, final) ==
  IF results = << >> THEN << >>
  ELSE (IF Head(results).isFinal = final THEN Head(results).transcript ELSE << >>)
       \o Collect(Tail(results), final)

\* the texts of the final results of an event, one by one
RECURSIVE Finals(_)
Finals(results) ==
  IF results = << >> THEN << >>
  ELSE (IF Head(results).isFinal THEN <<Head(results).transcript>> ELSE << >>)
       \o Finals(Tail(results))

\* the session of a mounted voice component has received the event
Heard(s, event) ==
  IF s.voice.mounted
  THEN [s EXCEPT !.hist.sessHeard = TRUE,
                 !.hist.sessFinals = s.hist.sessFinals \o Finals(event),
                 !.hist.sessInterim = Collect(event, FALSE)]
  ELSE s

\* setState of the voice component: nothing once the component is unmounted
SetVoice(s, v) == IF s.voice.mounted THEN v ELSE s.voice

\* recognition.start(): throws InvalidStateError unless the object is idle
CanStart(r) == r.state = "idle"

\* recognition.stop(): ignored unless capture is starting or active
Stop(r) ==
  IF r.state \in {"starting", "active"} THEN [r EXCEPT !.state = "stopping"] ELSE r

onstart(s) ==
  [s EXCEPT !.voice = SetVoice(s, [s.voice EXCEPT !.isListening = TRUE, !.error = NullVoiceError]),
            !.rec.accumulatedTranscript =
               IF s.variant = "columbiaB" THEN << >> ELSE s.rec.accumulatedTranscript]

\* accumulatedTranscript after the finals of the event
Accumulate(acc, finalTranscript) ==
  IF finalTranscript # << >> THEN acc \o finalTranscript \o <<Space>> ELSE acc

\* currentTranscript of the callback: the accumulated finals and the interim text
CurrentTranscript(s, event) ==
  Accumulate(s.rec.accumulatedTranscript, Collect(event, TRUE)) \o Collect(event, FALSE)

onresult(s, event) ==
  LET acc == Accumulate(s.rec.accumulatedTranscript, Collect(event, TRUE))
      currentTranscript == CurrentTranscript(s, event)
  IN  IF Trim(currentTranscript) # << >>
      THEN [s EXCEPT !.rec.accumulatedTranscript = acc,
                     !.rec.submitTimeout = TRUE,
                     !.rec.staleTimer = FALSE,
                     !.voice = SetVoice(s, [s.voice EXCEPT !.transcript = Trim(currentTranscript)])]
      ELSE [s EXCEPT !.rec.accumulatedTranscript = acc]

\* a timer callback that resets the text but does not stop the recognition
onquietWithoutStop(s) ==
  [s EXCEPT !.rec.submitTimeout = FALSE, !.rec.staleTimer = FALSE,
            !.rec.accumulatedTranscript = << >>]

\* the callback of the 5-second timer
onquiet(s) ==
  [s EXCEPT !.rec = Stop([s.rec EXCEPT
                            !.submitTimeout = FALSE,
                            !.staleTimer = FALSE,
                            !.accumulatedTranscript =
                               IF s.variant = "columbiaA" THEN s.rec.accumulatedTranscript
                               ELSE << >>])]

onend(s) ==
  [s EXCEPT !.voice = SetVoice(s, [s.voice EXCEPT !.isListening = FALSE]),
            !.rec.state = "idle",
            !.rec.submitTimeout =
               IF s.variant = "columbiaA" THEN FALSE ELSE s.rec.submitTimeout,
            !.rec.staleTimer =
               IF s.variant = "columbiaA" THEN FALSE ELSE s.rec.staleTimer]

\* an error handler that reports the error but leaves the listening flag set
onerrorKeepsListening(s, code) ==
  [s EXCEPT !.voice = SetVoice(s, [s.voice EXCEPT
                                     !.error = <<VoiceErrorPrefix(s.variant), code>>]),
            !.rec.state = "failed"]

onerror(s, code) ==
  [s EXCEPT !.voice = SetVoice(s, [s.voice EXCEPT
                                     !.error = <<VoiceErrorPrefix(s.variant), code>>,
                                     !.isListening = FALSE]),
            !.rec.state = "failed"]

\* a startListening that does not test whether a recognition object exists
startListeningUnchecked(s) ==
  IF ~s.closure.voice.isListening
  THEN [s EXCEPT !.voice = [s.voice EXCEPT !.transcript = << >>, !.error = NullVoiceError],
                 !.rec.state = "starting",
                 !.rec.staleTimer = s.rec.submitTimeout]
  ELSE s

\* if (recognitionRef.current && !isListening): startListening goes on to start()
CallsStart(s) == s.closure.voice.isSupported /\ ~s.closure.voice.isListening

\* recognition.start() is called on an object that is not idle and throws
StartThrows(s) == CallsStart(s) /\ ~CanStart(s.rec)

startListening(s) ==
  IF CallsStart(s)
  THEN LET v == [s.voice EXCEPT !.transcript = << >>, !.error = NullVoiceError]
       IN  IF CanStart(s.rec)
           THEN [s EXCEPT !.voice = v, !.rec.state = "starting",
                          !.rec.staleTimer = s.rec.submitTimeout]
           ELSE [s EXCEPT !.voice =
                            IF s.variant = "columbiaA" THEN v
                            ELSE [v EXCEPT !.error = StartFailedMessage]]
  ELSE s

stopListening(s) ==
  IF s.closure.voice.isSupported /\ s.closure.voice.isListening
  THEN [s EXCEPT !.rec = Stop(s.rec)]
  ELSE s

\* a recognition object that can do nothing any more: not capturing, no timer pending
Dead(r) == r.state = "idle" /\ ~r.submitTimeout
NotDead(r) == ~Dead(r)

\* the state a callback of recognition object i works on: object 0 belongs to the
\* voice component of the page, object i > 0 to an unmounted one, whose closure
\* holds its own object and timer and whose state setters do nothing
Seen(s, i) ==
  IF i = 0 THEN s
  ELSE [s EXCEPT !.rec = s.orphans[i], !.voice.mounted = FALSE]

\* the program state after a callback of object i has taken Seen(s, i) to t
After(s, i, t) ==
  IF i = 0 THEN t
  ELSE [s EXCEPT !.orphans =
                   SelectSeq([s.orphans EXCEPT ![i] = [t.rec EXCEPT !.staleTimer = FALSE]],
                             NotDead)]

-----------------------------------------------------------------------------
(* Main component and voice component *)

handleQuestion(s, question) ==
  [askQuestion(s, question) EXCEPT !.ui.textInput = << >>]

\* an effect condition without the !isListening test
TranscriptReadyWhileListening(v) ==
  v.mounted /\ v.transcript # << >> /\ ~v.hasSubmitted

\* an effect condition without the !hasSubmitted test
TranscriptReadyIgnoringSubmitted(v) ==
  v.mounted /\ v.transcript # << >> /\ ~v.isListening

\* if (transcript && !isListening && !hasSubmitted)
TranscriptReady(v) ==
  v.mounted /\ v.transcript # << >> /\ ~v.isListening /\ ~v.hasSubmitted

\* the submit effect of the committed render.  React runs it as a callback of its
\* own, after the commit and before the next render: it reads transcript,
\* isListening and hasSubmitted of the render that created it
SubmitEffect(s) ==
  IF TranscriptReady(s.closure.voice)
  THEN handleQuestion([s EXCEPT !.voice = SetVoice(s, [s.voice EXCEPT !.hasSubmitted = TRUE]),
                                !.hist.sessSubmits = s.hist.sessSubmits + 1],
                      s.closure.voice.transcript)
  ELSE s

NewSession(h) ==
  [h EXCEPT !.sessSubmits = 0, !.sessExpired = FALSE, !.sessStopped = FALSE,
            !.sessHeard = FALSE, !.sessFinals = << >>, !.sessInterim = << >>]

handleStartListening(s) ==
  startListening([s EXCEPT !.voice.hasSubmitted = FALSE,
                           !.ui.activeTab =
                              IF s.variant = "columbiaA" THEN "voice" ELSE s.ui.activeTab])

handleTextSubmit(s) ==
  IF Trim(s.closure.ui.textInput) # << >>
  THEN handleQuestion(s, Trim(s.closure.ui.textInput))
  ELSE s

-----------------------------------------------------------------------------
(* What the view offers *)

\* the microphone button is rendered and enabled
VoiceButtonEnabled ==
  IF ChildVoice(variant)
  THEN voice.mounted /\ voice.isSupported /\ ~api.loading
  ELSE TRUE

\* the texts typed into the textarea: white space only, and a question
TypedTexts == {<<Space, Newline, CarriageReturn>>, <<FormFeed, "q", VerticalTab>>}

FreshVoice(supported, mounted) ==
  [mounted |-> mounted, isSupported |-> supported, isListening |-> FALSE,
   transcript |-> << >>, hasSubmitted |-> FALSE, error |-> NullVoiceError]

\* a new recognition object and the closure of its callbacks; staleTimer records
\* that the pending timer was armed before the latest start(), events counts the
\* recognition events of the run
FreshRec ==
  [state |-> "idle", submitTimeout |-> FALSE, accumulatedTranscript |-> << >>,
   staleTimer |-> FALSE, events |-> 0]

-----------------------------------------------------------------------------
(* Answer renderer: RulesResponse / ColumbiaRulesResponse *)

\* nothing has been handed to the renderer
NoView == [rendered |-> FALSE]

\* values of response.rule_type and response.confidence: the declared ones, one in
\* another letter case, and a missing field
RuleTypes == {"local", "official", "hybrid", "Local", Undefined}
Confidences == {"high", "medium", "low", "High", Undefined}

\* a switch without its 'official' case
getRuleTypeConfigWithoutOfficial(v, type) ==
  IF v = "general"
  THEN IF type = "local"
       THEN [color |-> "bg-blue-500", label |-> "Club Local Rule",
             textColor |-> "text-blue-600"]
       ELSE [color |-> "bg-purple-500", label |-> "Combined Rules",
             textColor |-> "text-purple-600"]
  ELSE IF type = "local"
       THEN [color |-> "bg-blue-600", label |-> "Columbia CC Local Rule"]
       ELSE [color |-> "bg-purple-600", label |-> "Combined Rules"]

\* switch (type) { case 'local': ... case 'official': ... default: ... }
getRuleTypeConfig(v, type) ==
  IF v = "general"
  THEN CASE type = "local" ->
              [color |-> "bg-blue-500", label |-> "Club Local Rule",
               textColor |-> "text-blue-600"]
         [] type = "official" ->
              [color |-> "bg-green-500", label |-> "Official Rules of Golf",
               textColor |-> "text-green-600"]
         [] OTHER ->
              [color |-> "bg-purple-500", label |-> "Combined Rules",
               textColor |-> "text-purple-600"]
  ELSE CASE type = "local" ->
              [color |-> "bg-blue-600", label |-> "Columbia CC Local Rule"]
         [] type = "official" ->
              [color |-> "bg-green-600", label |-> "Official Rules of Golf"]
         [] OTHER ->
              [color |-> "bg-purple-600", label |-> "Combined Rules"]

\* switch (confidence) { case 'high': ... case 'medium': ... default: ... }
\* (the icons are the characters U+2705, U+26A0 U+FE0F and U+2753)
getConfidenceConfig(confidence) ==
  CASE confidence = "high" -> [color |-> "text-green-600", icon |-> "U+2705"]
    [] confidence = "medium" -> [color |-> "text-yellow-600", icon |-> "U+26A0 U+FE0F"]
    [] OTHER -> [color |-> "text-red-600", icon |-> "U+2753"]

\* the characters of an answer text; Bullet stands for the character U+2022
Bullet == "*"

\* the markup the renderer produces, each piece one element of the rendered sequence
Br == "<br>"
BullEntity == "&bull;"
OpenItem ==
  "<div style=\"display: flex; margin-bottom: 2px; padding-left: 0;\"><span style=\"margin-right: 8px;\">&bull;</span><span>"
CloseItem == "</span></div>"

\* String.prototype.startsWith
StartsWith(s, prefix) ==
  Len(s) >= Len(prefix) /\ SubSeq(s, 1, Len(prefix)) = prefix

\* String.prototype.split('\n')
RECURSIVE Split(_)
Split(text) ==
  IF \A i \in 1..Len(text) : text[i] # Newline THEN <<text>>
  ELSE LET i == CHOOSE j \in 1..Len(text) :
                  text[j] = Newline /\ \A k \in 1..(j - 1) : text[k] # Newline
       IN  <<SubSeq(text, 1, i - 1)>> \o Split(SubSeq(text, i + 1, Len(text)))

\* Array.prototype.join
RECURSIVE Join(_, _)
Join(parts, separator) ==
  IF parts = << >> THEN << >>
  ELSE IF Len(parts) = 1 THEN Head(parts)
  ELSE Head(parts) \o separator \o Join(Tail(parts), separator)

\* line.replace('\u2022 ', ''): the first bullet-and-space of the line is removed
RECURSIVE RemoveFirstBullet(_)
RemoveFirstBullet(line) ==
  IF line = << >> THEN << >>
  ELSE IF StartsWith(line, <<Bullet, Space>>) THEN SubSeq(line, 3, Len(line))
  ELSE <<Head(line)>> \o RemoveFirstBullet(Tail(line))

\* the callback of map: a bullet line becomes a flex item
FormatLine(line) ==
  IF StartsWith(Trim(line), <<Bullet, Space>>)
  THEN <<OpenItem>> \o RemoveFirstBullet(line) \o <<CloseItem>>
  ELSE line

RECURSIVE FormatLines(_)
FormatLines(lines) ==
  IF lines = << >> THEN << >>
  ELSE <<FormatLine(Head(lines))>> \o FormatLines(Tail(lines))

\* .replace(/<\/div><br><div style="display: flex/g, '</div><div style="display: flex')
RECURSIVE RemoveBreaksBetweenItems(_)
RemoveBreaksBetweenItems(html) ==
  IF html = << >> THEN << >>
  ELSE IF StartsWith(html, <<CloseItem, Br, OpenItem>>)
       THEN <<CloseItem, OpenItem>> \o RemoveBreaksBetweenItems(SubSeq(html, 4, Len(html)))
  ELSE <<Head(html)>> \o RemoveBreaksBetweenItems(Tail(html))

\* .replace(/\n/g, '<br>').replace(/\u2022/g, '&bull;')
RECURSIVE ReplaceBreaksAndBullets(_)
ReplaceBreaksAndBullets(text) ==
  IF text = << >> THEN << >>
  ELSE <<(IF Head(text) = Newline THEN Br
          ELSE IF Head(text) = Bullet THEN BullEntity ELSE Head(text))>>
       \o ReplaceBreaksAndBullets(Tail(text))

\* the __html of the answer
formatAnswer(v, answer) ==
  IF v = "general"
  THEN ReplaceBreaksAndBullets(answer)
  ELSE RemoveBreaksBetweenItems(Join(FormatLines(Split(answer)), <<Br>>))

\* the lines answers are made of: text, bullet lines (plain, indented, without text,
\* without the space), an empty line
LineTexts ==
  {<<"x">>, <<Bullet, Space, "x">>, <<Space, Bullet, Space, "x">>,
   <<Bullet, "x">>, <<Bullet, Space>>, << >>}

AnswerTexts ==
  {Join(lines, <<Newline>>) : lines \in UNION {[1..n -> LineTexts] : n \in 1..MaxLines}}

\* the successful responses handed to the renderer
Responses ==
  [rule_type : RuleTypes, confidence : Confidences, answer : AnswerTexts]

\* response.confidence.toUpperCase() in the markup of RulesResponse: a TypeError
\* when the field is missing
RenderThrows(v, response) ==
  v = "general" /\ response.confidence = Undefined

\* if (!response) return null; otherwise the badge, the confidence and the answer.
\* When the function throws, nothing is rendered
Render(v, response) ==
  IF RenderThrows(v, response)
  THEN [rendered |-> FALSE, response |-> response, threw |-> "TypeError"]
  ELSE [rendered |-> TRUE, response |-> response,
        ruleConfig |-> getRuleTypeConfig(v, response.rule_type),
        confidenceConfig |-> getConfidenceConfig(response.confidence),
        html |-> formatAnswer(v, response.answer)]

-----------------------------------------------------------------------------
(* Initial state and steps *)

\* the state of variant v after its first render and its mount effects, on a
\* platform with or without speech recognition
StartState(v, supported) ==
  [variant |-> v,
   api |-> [loading |-> FALSE, requestInProgress |-> FALSE, response |-> NoResponse,
            error |-> NullError, quickQuestions |-> {}],
   net |-> {},
   nextId |-> 1,
   ui |-> [activeTab |-> "voice", textInput |-> << >>],
   voice |-> FreshVoice(supported, TRUE),
   rec |-> FreshRec,
   orphans |-> << >>,
   hist |-> [lastCall |-> "none", lastExit |-> "none", sessSubmits |-> 0,
             sessExpired |-> FALSE, sessStopped |-> FALSE, platform |-> supported,
             sessHeard |-> FALSE, sessFinals |-> << >>, sessInterim |-> << >>]]

\* the application after its first render and its mount effects
AppStart ==
  /\ variant \in Variants
  /\ \E supported \in BOOLEAN :
       LET s == StartState(variant, supported)
       IN  /\ api = s.api
           /\ net = s.net
           /\ nextId = s.nextId
           /\ ui = s.ui
           /\ voice = s.voice
           /\ rec = s.rec
           /\ orphans = s.orphans
           /\ hist = s.hist

Init ==
  /\ AppStart
  /\ view = NoView

\* loadQuickQuestions: the GET answered with success and a list
QuickQuestionsLoaded ==
  /\ api.quickQuestions = {}
  /\ Commit(SubmitEffect([Cur EXCEPT !.api.quickQuestions = QuickTexts]))

\* the response headers arrive: the awaited fetch resolves, clearTimeout(timeoutId);
\* no state is set, so nothing is rendered
HeadersArrive ==
  \E r \in net :
    /\ r.phase = "headers"
    /\ Commit([Cur EXCEPT !.net = (net \ {r}) \cup
                             {[r EXCEPT !.phase = "body", !.timer = FALSE]}])

\* response.json() resolves with the body
BodyArrives ==
  \E r \in net : \E data \in Payloads(r.question) :
    /\ r.phase = "body"
    /\ Commit(SubmitEffect(Leave(Cur, r, OnData(Cur, data),
                                 IF data.success THEN "success" ELSE "failure")))

\* response.json() rejects (the body is cut short or is not JSON)
BodyFails ==
  \E r \in net :
    /\ r.phase = "body"
    /\ Commit(SubmitEffect(Leave(Cur, r, OnException(Cur, "SyntaxError"), "network")))

\* fetch rejects: the transport failed
FetchFails ==
  \E r \in net :
    /\ r.phase = "headers"
    /\ Commit(SubmitEffect(Leave(Cur, r, OnException(Cur, "TypeError"), "network")))

\* the 10-second timer expires: controller.abort(), fetch rejects with AbortError
AbortTimerFires ==
  \E r \in net :
    /\ r.timer
    /\ r.phase = "headers"
    /\ Commit(SubmitEffect(Leave(Cur, r, OnException(Cur, "AbortError"), "timeout")))

\* the effects of the committed render run: the submit effect of the voice
\* component finds a transcript ready
SubmitEffectRuns ==
  /\ TranscriptReady(voice)
  /\ Commit(SubmitEffect(Cur))

\* "Ask Another Question" under a displayed answer: window.location.reload(), the
\* page and everything on it is discarded and the application starts again
AskAnotherQuestion ==
  /\ variant # "general"
  /\ ~api.loading
  /\ api.response # NoResponse
  /\ Commit(StartState(variant, hist.platform))

\* a quick-question button is clicked
QuickQuestionClick ==
  \E q \in api.quickQuestions :
    /\ ~api.loading
    /\ api.response = NoResponse
    /\ Commit(SubmitEffect(handleQuestion(Cur, q)))

\* the textarea changes
ChangeText ==
  \E v \in TypedTexts \cup {<< >>} :
    /\ ui.activeTab = "text"
    /\ ~api.loading
    /\ v # ui.textInput
    /\ Commit(SubmitEffect([Cur EXCEPT !.ui.textInput = v]))

\* the form is submitted with the Ask button
TextSubmit ==
  /\ ui.activeTab = "text"
  /\ ~api.loading
  /\ Trim(ui.textInput) # << >>
  /\ Commit(SubmitEffect(handleTextSubmit(Cur)))

\* the render without the voice tab: a child voice component is unmounted
Unmount(s) ==
  IF ChildVoice(s.variant)
  THEN [s EXCEPT !.voice = FreshVoice(s.voice.isSupported, FALSE),
                 !.hist = NewSession(s.hist)]
  ELSE s

\* the Type tab is selected
SelectTextTab ==
  /\ ui.activeTab = "voice"
  /\ Commit(Unmount(SubmitEffect([Cur EXCEPT !.ui.activeTab = "text"])))

\* the recognition objects left behind when r is replaced
Orphaned(os, r) ==
  SelectSeq(Append(os, [r EXCEPT !.events = 0, !.staleTimer = FALSE]), NotDead)

\* the recognition objects alive: 0 the one of the page's voice component
Objects == 0..Len(orphans)
Object(i) == IF i = 0 THEN rec ELSE orphans[i]

\* a child voice component is mounted, with a new recognition object; os are the
\* objects of earlier components from then on
Mount(s, os) ==
  [s EXCEPT !.ui.activeTab = "voice",
            !.voice = FreshVoice(s.hist.platform, TRUE),
            !.orphans = os,
            !.rec = [FreshRec EXCEPT !.events = s.rec.events]]

\* the Voice tab is selected.  The object of the old component is not followed any
\* further: its callbacks set state of an unmounted component and stop only itself,
\* so nothing it does reaches the other variables
SelectVoiceTab ==
  /\ ChildVoice(variant)
  /\ ui.activeTab = "text"
  /\ Commit(Mount(Cur, orphans))

\* the Voice tab is selected, and the object of the old component is followed: the
\* mount effect has no cleanup, so the object goes on capturing and keeps its timer
SelectVoiceTabLeavingObject ==
  /\ ChildVoice(variant)
  /\ ui.activeTab = "text"
  /\ Len(Orphaned(orphans, rec)) <= MaxOrphans
  /\ Commit(Mount(Cur, Orphaned(orphans, rec)))

\* the effects pending when a callback of recognition object i has run; sets says
\* whether the callback has called a state setter.  A state update of the mounted
\* component is rendered, and the pending submit effect runs before the render;
\* a callback that calls no setter, and the setters of an unmounted component,
\* cause no render and a pending effect stays pending
Flush(s, i, sets) ==
  IF i = 0 /\ s.voice.mounted /\ sets THEN SubmitEffect(s) ELSE s

\* the microphone button is clicked while it shows "start": a new session begins
\* (a submit effect still pending belongs to the session before)
StartClick ==
  /\ VoiceButtonEnabled
  /\ ~voice.isListening
  /\ LET s == SubmitEffect(handleStartListening(Cur))
     IN  Commit([s EXCEPT !.hist = NewSession(s.hist)])

\* the microphone button is clicked while it shows "stop": stopListening sets no
\* state, nothing is rendered
StopClick ==
  /\ VoiceButtonEnabled
  /\ voice.isListening
  /\ Commit(stopListening(
        [Cur EXCEPT !.hist.sessStopped =
            hist.sessStopped \/ (voice.transcript # << >> /\ ~hist.sessExpired)]))

\* the platform reports that capture started
CaptureStarted ==
  \E i \in Objects :
    /\ Object(i).state = "starting"
    /\ Commit(Flush(After(Cur, i,
          onstart([Seen(Cur, i) EXCEPT !.rec.state = "active"])), i, TRUE))

\* the platform delivers recognition results
RecognitionResult ==
  \E i \in Objects, event \in Events :
    /\ Object(i).state \in {"active", "stopping"}
    /\ rec.events < MaxEvents
    /\ LET s == [Cur EXCEPT !.rec.events = rec.events + 1]
       IN  Commit(Flush(After(s, i, onresult(Heard(Seen(s, i), event), event)), i,
                        Trim(CurrentTranscript(Seen(s, i), event)) # << >>))

\* the 5-second timer expires: the callback sets no state, nothing is rendered
QuietTimerFires ==
  \E i \in Objects :
    /\ Object(i).submitTimeout
    /\ LET s == [Cur EXCEPT !.hist.sessExpired =
                      hist.sessExpired
                      \/ (i = 0 /\ voice.mounted /\ voice.transcript # << >>)]
       IN  Commit(After(s, i, onquiet(Seen(s, i))))

\* the platform reports a recognition error; capture-ended follows
CaptureError ==
  \E i \in Objects, code \in ErrorCodes :
    /\ Object(i).state \in {"starting", "active"}
    /\ Commit(Flush(After(Cur, i, onerror(Seen(Cur, i), code)), i, TRUE))

\* the platform reports that capture ended
CaptureEnded ==
  \E i \in Objects :
    /\ Object(i).state \in {"stopping", "failed"}
    /\ Commit(Flush(After(Cur, i, onend(Seen(Cur, i))), i, TRUE))

\* every step but the selection of the Voice tab
OtherStep ==
  \/ SubmitEffectRuns
  \/ AskAnotherQuestion
  \/ QuickQuestionsLoaded
  \/ QuickQuestionClick
  \/ ChangeText
  \/ TextSubmit
  \/ SelectTextTab
  \/ StartClick
  \/ StopClick
  \/ CaptureStarted
  \/ RecognitionResult
  \/ QuietTimerFires
  \/ CaptureError
  \/ CaptureEnded
  \/ HeadersArrive
  \/ BodyArrives
  \/ BodyFails
  \/ FetchFails
  \/ AbortTimerFires

Next ==
  \/ OtherStep
  \/ SelectVoiceTab

Spec == Init /\ [][Next]_vars

\* the program with the recognition objects of unmounted components followed
RemountNext ==
  \/ OtherStep
  \/ SelectVoiceTabLeavingObject

RemountSpec == Init /\ [][RemountNext]_vars

\* the renderer alone: a response arrives in the props and is rendered
RenderInit ==
  /\ AppStart
  /\ \E response \in Responses : view = [rendered |-> FALSE, response |-> response]

RenderResponse ==
  /\ DOMAIN view = {"rendered", "response"}
  /\ view' = Render(variant, view.response)
  /\ UNCHANGED <<variant, api, net, nextId, ui, voice, rec, orphans, hist>>

RenderNext == RenderResponse

RenderSpec == RenderInit /\ [][RenderNext]_vars

\* timers that are armed do expire: the event loop runs the abort callback
FairSpec == Spec /\ WF_vars(AbortTimerFires)

-----------------------------------------------------------------------------
(* Claims *)

\* C1: in every variant at most one POST /api/ask is outstanding at any time; a
\* submission made while one is outstanding is dropped and never reaches fetch.
C1_AtMostOneOutstanding ==
  Cardinality(net) <= 1

\* C2: every accepted askQuestion call leaves with the in-flight marker cleared
\* (loading and requestInProgress both false) on each exit path, and a further
\* submission is then accepted by the guard.
C2_MarkerClearedOnEveryExit ==
  (hist.lastExit \in {"success", "failure", "network", "timeout"}
   /\ hist.lastCall # "accepted") =>
    /\ ~api.loading
    /\ ~api.requestInProgress
    /\ ~Blocked(Cur)

C2_Witness ==
  /\ hist.lastExit = "timeout"
  /\ nextId = MaxRequests + 1
  /\ ~api.loading

\* C3 as stated: after an explicit stop with a non-empty transcript and before any
\* quiet-period expiry, no question is dispatched for the session.
C3_ExplicitStopNeverSubmits ==
  (hist.sessStopped /\ ~hist.sessExpired) => hist.sessSubmits = 0

\* C3 as amended: after an explicit stop with a non-empty transcript, nothing is
\* dispatched while the listening flag is still true or the submit effect is still
\* to run; once the flag is false and the effect has run, the session is marked as
\* submitted and at most one question has been dispatched for it.
C3_ExplicitStopSubmitsOnCaptureEnd ==
  hist.sessStopped =>
    /\ (voice.isListening \/ TranscriptReady(voice)) => hist.sessSubmits = 0
    /\ (~voice.isListening /\ ~TranscriptReady(voice)) =>
         (voice.hasSubmitted /\ hist.sessSubmits <= 1)

C3_Witness ==
  /\ hist.sessStopped
  /\ ~hist.sessExpired
  /\ ~voice.isListening
  /\ voice.hasSubmitted
  /\ hist.sessSubmits = 1

\* C4: while capture is active with a non-empty transcript a quiet-period timer is
\* armed; once it has expired in a session with a non-empty transcript, capture is
\* stopped (no longer starting or active), and when capture has ended and the
\* submit effect has run, exactly one submission has been dispatched for the session.
C4_QuietExpirySubmitsOnce ==
  /\ (voice.mounted /\ voice.isListening /\ voice.transcript # << >>
        /\ rec.state = "active") => rec.submitTimeout
  /\ hist.sessExpired =>
       /\ rec.state \in {"stopping", "failed", "idle"}
       /\ hist.sessSubmits <= 1
       /\ (rec.state = "idle" /\ ~TranscriptReady(voice)) => hist.sessSubmits = 1

C4_Witness ==
  /\ hist.sessExpired
  /\ ~hist.sessStopped
  /\ rec.state = "idle"
  /\ voice.hasSubmitted
  /\ hist.sessSubmits = 1

\* a step in which the submit effect of the voice component hands the transcript
\* to handleQuestion: the effect was pending and the step has rendered
VoiceDispatch ==
  /\ TranscriptReady(voice)
  /\ ~TranscriptReady(voice')
  /\ ~AskAnotherQuestion

\* C5: for a mounted voice component, hasSubmitted rises only in a step in which
\* the submit effect dispatches, every dispatch leaves the flag set (so the effect
\* cannot dispatch again), at most one question is dispatched per session, and the
\* flag falls only in handleStartListening (or with the page, when it is reloaded).
C5_SubmittedOncePerSession ==
  [][/\ hist'.sessSubmits <= 1
     /\ (voice'.mounted /\ ~voice.hasSubmitted /\ voice'.hasSubmitted) => VoiceDispatch
     /\ (VoiceDispatch /\ voice'.mounted) => (hist.sessSubmits = 0 /\ voice'.hasSubmitted)
     /\ (voice.hasSubmitted /\ voice'.mounted /\ ~voice'.hasSubmitted) =>
          (StartClick \/ AskAnotherQuestion)]_vars

C5_Witness ==
  /\ voice.hasSubmitted
  /\ hist.sessSubmits = 1
  /\ rec.submitTimeout

\* C6: every accepted request eventually completes in every variant: loading never
\* stays true forever, also when the server never delivers the headers or the body.
C6_EveryRequestCompletes ==
  api.loading ~> ~api.loading

\* a request has just left askQuestion by the given exit path
Completed(exit) ==
  /\ \E r \in net : \A q \in net' : q.id # r.id
  /\ hist'.lastExit = exit

\* a call of askQuestion has been accepted in the step: a request is issued
NewCall ==
  \E q \in net' : \A r \in net : r.id # q.id

\* C7: a request ended by the abort timer sets the timeout message, any other
\* exception sets the network-error message, the two messages differ, and neither
\* path stores an answer.  The render after the step shows what the exit set,
\* unless the pending submit effect of the voice component has a call accepted in
\* the same step: that call clears the error (and, unguarded, the response).
C7_ExceptionClassification ==
  [][/\ (Completed("timeout") /\ ~NewCall) =>
          /\ api'.error = TimeoutMessage
          /\ api'.error # NetworkMessage(variant)
          /\ api'.response = api.response
     /\ (Completed("network") /\ ~NewCall) =>
          /\ api'.error = NetworkMessage(variant)
          /\ api'.error # TimeoutMessage
          /\ api'.response = api.response
     /\ ((Completed("timeout") \/ Completed("network")) /\ NewCall) =>
          /\ VoiceDispatch
          /\ api'.error = NullError
          /\ api'.response \in {api.response, NoResponse}]_vars

C7_Witness ==
  /\ hist.lastExit = "timeout"
  /\ api.error = TimeoutMessage
  /\ api.response = NoResponse

\* C8: a response with success=false leaves the server's error string (or the
\* generic message) as the error and does not become the response; a response with
\* success=true becomes the response and leaves the error state null.  (When the
\* pending submit effect has a call accepted in the same step, that call has
\* cleared the error.)
C8_ResponseClassification ==
  [][/\ (Completed("failure") /\ ~NewCall) =>
          /\ api'.error \in {"club not found", GenericFailure(variant)}
          /\ api'.response = api.response
     /\ (Completed("success") /\ ~NewCall) =>
          /\ api'.response \in Payloads(api'.response.question)
          /\ api'.response.success
          /\ api'.error = NullError
     /\ ((Completed("failure") \/ Completed("success")) /\ NewCall) =>
          /\ VoiceDispatch
          /\ api'.error = NullError]_vars

\* C9: in every state where a request is in flight the response state is absent
\* and the error state is null.
C9_InFlightShowsNothingOld ==
  net # {} => (api.response = NoResponse /\ api.error = NullError)

\* what the view renders
AnswerRendered == ~api.loading /\ api.response # NoResponse
ErrorBannerRendered == api.error # NullError

\* C10: whenever no request is in flight the view never shows an answer and an
\* error banner together.
C10_NeverAnswerAndError ==
  net = {} => ~(AnswerRendered /\ ErrorBannerRendered)

\* segments joined by single spaces
RECURSIVE JoinWithSpaces(_)
JoinWithSpaces(segments) ==
  IF segments = << >> THEN << >>
  ELSE IF Len(segments) = 1 THEN Head(segments)
  ELSE Head(segments) \o <<Space>> \o JoinWithSpaces(Tail(segments))

\* the finalized segments of the session, followed by the latest interim text
SessionText(finals, interim) ==
  JoinWithSpaces(finals \o (IF interim = << >> THEN << >> ELSE <<interim>>))

\* C11: after each recognition event of a session the exposed transcript is the
\* finalized segments received so far in that session, in arrival order and joined
\* by single spaces, followed by the interim text of the latest event only.
C11_TranscriptIsFinalsThenLatestInterim ==
  (voice.mounted /\ hist.sessHeard) =>
    voice.transcript = SessionText(hist.sessFinals, hist.sessInterim)

\* a step in which a question is handed to askQuestion: by a quick-question button,
\* by the form, or by the submit effect of the voice component
SubmissionAttempt ==
  \/ QuickQuestionClick
  \/ TextSubmit
  \/ VoiceDispatch

\* a step that is one submission attempt and nothing else, which the request guard
\* rejects
RejectedAttempt ==
  /\ \/ (QuickQuestionClick \/ TextSubmit) /\ ~TranscriptReady(voice)
     \/ SubmitEffectRuns
  /\ hist'.lastCall = "dropped"

\* C12: a submission attempt rejected by the request guard changes no state:
\* response, error, loading, the outstanding requests, the typed text input and the
\* submitted flag of the voice session are as before.
C12_RejectedAttemptChangesNothing ==
  [][RejectedAttempt =>
       /\ api' = api
       /\ net' = net
       /\ ui'.textInput = ui.textInput
       /\ voice'.hasSubmitted = voice.hasSubmitted]_vars

\* a recognition error has been reported to a mounted session that exposes a
\* non-empty transcript and whose quiet-period timer has not expired (the platform
\* has not yet reported the end of capture)
ErrorInOpenSession ==
  /\ rec.state = "failed"
  /\ voice.mounted
  /\ voice.transcript # << >>
  /\ ~hist.sessExpired

\* C13 as stated: such an error ends the session (listening flag false, error
\* message exposed) and no question is submitted for it.
C13_ErrorNeverSubmits ==
  ErrorInOpenSession =>
    /\ ~voice.isListening
    /\ voice.error # NullVoiceError
    /\ hist.sessSubmits = 0

\* C13 as amended: such an error ends the session (listening flag false, error
\* message exposed); nothing is dispatched before the submit effect runs, and once
\* it has run the session is marked as submitted and at most one question has been
\* dispatched for it.
C13_ErrorSubmitsTranscript ==
  ErrorInOpenSession =>
    /\ ~voice.isListening
    /\ \E code \in ErrorCodes : voice.error = <<VoiceErrorPrefix(variant), code>>
    /\ TranscriptReady(voice) => hist.sessSubmits = 0
    /\ ~TranscriptReady(voice) => (voice.hasSubmitted /\ hist.sessSubmits <= 1)

C13_Witness ==
  /\ voice.mounted
  /\ rec.state = "failed"
  /\ voice.error # NullVoiceError
  /\ voice.transcript # << >>
  /\ ~hist.sessExpired
  /\ ~hist.sessStopped
  /\ hist.sessSubmits = 1

\* the numbers of the requests in a set of outstanding requests
Ids(requests) == {r.id : r \in requests}

\* the submission attempts of a step: a click or a form submission, and the
\* dispatch of a pending submit effect
Attempts ==
  (IF QuickQuestionClick \/ TextSubmit THEN 1 ELSE 0)
  + (IF VoiceDispatch THEN 1 ELSE 0)

\* C14: no retries.  In every step of a page (a reload apart) no more requests
\* are issued than the step has submission attempts, each with a new number; a
\* step ends at most one request, and the step in which a request ends (by
\* success, success=false, network error or timeout) issues none unless a pending
\* submit effect dispatches in it, so after an error the next request comes only
\* from a new submission.
C14_NoRetry ==
  [][AskAnotherQuestion \/
     LET issued == Ids(net') \ Ids(net)
         ended == Ids(net) \ Ids(net')
     IN  /\ Cardinality(issued) <= Attempts
         /\ nextId' = nextId + Cardinality(issued)
         /\ issued \subseteq nextId..(nextId + 1)
         /\ Cardinality(ended) <= 1
         /\ (ended # {} /\ ~VoiceDispatch) =>
              /\ issued = {}
              /\ hist'.lastExit \in {"success", "failure", "network", "timeout"}]_vars

C14_Witness ==
  /\ hist.lastExit = "failure"
  /\ api.error = "club not found"
  /\ net = {}
  /\ nextId = 2

\* C15: on a platform without speech recognition the support flag is false,
\* startListening and stopListening change nothing, the listening flag is never
\* true, the transcript stays empty, the recognition is never started and no voice
\* submission is dispatched.
C15_UnsupportedPlatformIsInert ==
  ~hist.platform =>
    /\ ~voice.isSupported
    /\ startListening(Cur) = Cur
    /\ stopListening(Cur) = Cur
    /\ ~voice.isListening
    /\ voice.transcript = << >>
    /\ rec = FreshRec
    /\ ~voice.hasSubmitted
    /\ hist.sessSubmits = 0

\* the microphone button of the tab bar was clicked on such a platform
C15_Witness ==
  /\ ~hist.platform
  /\ variant = "columbiaA"
  /\ ui.activeTab = "voice"
  /\ ui.textInput # << >>
  /\ nextId = 1

\* C16: every request that reaches POST /api/ask carries a question that is not
\* empty and not only white space, whichever path produced it.
C16_QuestionNeverBlank ==
  \A r \in net : Trim(r.question) # << >>

\* C17: the renderer's mappings are total and three-way.  rule_type 'local' gives
\* the club-local label (blue), 'official' the official-rules label (green), every
\* other value the combined label (purple); confidence 'high' gives the high
\* indicator, 'medium' the medium one, every other value the low one; the result
\* is a function of the value alone.
C17_MappingsAreThreeWay ==
  view.rendered =>
    LET type == view.response.rule_type
        confidence == view.response.confidence
    IN  /\ view.ruleConfig.label =
             (IF type = "local"
              THEN (IF variant = "general" THEN "Club Local Rule"
                    ELSE "Columbia CC Local Rule")
              ELSE IF type = "official" THEN "Official Rules of Golf"
              ELSE "Combined Rules")
        /\ view.ruleConfig.color \in
             (IF type = "local" THEN {"bg-blue-500", "bg-blue-600"}
              ELSE IF type = "official" THEN {"bg-green-500", "bg-green-600"}
              ELSE {"bg-purple-500", "bg-purple-600"})
        /\ view.confidenceConfig =
             (IF confidence = "high" THEN [color |-> "text-green-600", icon |-> "U+2705"]
              ELSE IF confidence = "medium"
                   THEN [color |-> "text-yellow-600", icon |-> "U+26A0 U+FE0F"]
              ELSE [color |-> "text-red-600", icon |-> "U+2753"])

C17_Witness ==
  /\ variant = "general"
  /\ view.rendered
  /\ view.response.rule_type = Undefined
  /\ view.ruleConfig.label = "Combined Rules"
  /\ view.response.confidence = "High"
  /\ view.confidenceConfig.color = "text-red-600"

\* a line that begins with a bullet marker, by the test of the renderer that has
\* one: line.trim().startsWith(bullet and space)
BeginsWithBullet(line) == StartsWith(Trim(line), <<Bullet, Space>>)

\* the markup of a rendering without its text: items and line breaks
IsMarkup(e) == e \in {OpenItem, CloseItem, Br}
Skeleton(html) == SelectSeq(html, IsMarkup)

\* one item per bullet line, no break between two adjacent bullet lines, one break
\* between every other pair of adjacent lines
RECURSIVE ItemsAndBreaks(_)
ItemsAndBreaks(lines) ==
  LET item == IF BeginsWithBullet(Head(lines)) THEN <<OpenItem, CloseItem>> ELSE << >>
  IN  IF Len(lines) = 1 THEN item
      ELSE item
           \o (IF BeginsWithBullet(lines[1]) /\ BeginsWithBullet(lines[2])
               THEN << >> ELSE <<Br>>)
           \o ItemsAndBreaks(Tail(lines))

\* C18: in every variant, each line of the answer that begins with a bullet marker
\* is rendered as a bullet item, two adjacent bullet items have no line break
\* between them, and every other pair of adjacent lines has exactly one.
C18_BulletItemsAndBreaks ==
  view.rendered =>
    Skeleton(view.html) = ItemsAndBreaks(Split(view.response.answer))

\* the quiet-period timers that are armed, one at most per recognition object
ArmedTimers == {i \in Objects : Object(i).submitTimeout}

\* C19: at most one quiet-period timer is armed at any time, so that only the timer
\* armed by the most recent recognition event with a non-empty transcript can expire.
C19_AtMostOneTimerArmed ==
  Cardinality(ArmedTimers) <= 1

\* C20: starting a new capture session cancels the quiet-period timer still pending
\* from an earlier session, so a timer armed in an earlier session never expires
\* while the new session is starting or active (it would stop the new session and
\* clear its accumulated text).
C20_NewSessionCancelsOldTimer ==
  [][/\ (rec.state = "idle" /\ rec'.state = "starting") => ~rec'.submitTimeout
     /\ ~(/\ QuietTimerFires
          /\ rec.submitTimeout /\ ~rec'.submitTimeout
          /\ rec.staleTimer
          /\ rec.state \in {"starting", "active"})]_vars

\* a word that the platform delivers in final results
FinalWord(w) ==
  \E event \in Events : \E k \in 1..Len(event) :
    event[k].isFinal /\ \E n \in 1..Len(event[k].transcript) : event[k].transcript[n] = w

\* the finalized words of a text
FinalWords(text) == SelectSeq(text, FinalWord)

\* C21: restarting capture resets the whole utterance session, however the earlier
\* one ended: the transcript exposed (and so submitted) in a session holds only text
\* recognised in that session, so it has no more finalized words than the session
\* has received; before the session's first recognition event the transcript is
\* empty, the submitted flag is false and nothing has been submitted.
C21_SessionHoldsOnlyItsOwnText ==
  voice.mounted =>
    /\ Len(FinalWords(voice.transcript)) <= Len(FinalWords(JoinWithSpaces(hist.sessFinals)))
    /\ ~hist.sessHeard =>
         (voice.transcript = << >> /\ ~voice.hasSubmitted /\ hist.sessSubmits = 0)

\* the quiet-period timer of the mounted session has expired on a non-empty
\* transcript and the session goes on without a submission so far
ExpiredAndWaiting ==
  /\ voice.mounted /\ voice'.mounted
  /\ hist.sessExpired /\ hist'.sessExpired
  /\ hist.sessSubmits = 0

\* C22: the question dispatched for a voice session is the transcript exposed when
\* the quiet-period timer expired: between the expiry and the dispatch no step
\* changes the exposed transcript, also not a recognition result delivered between
\* the stop() of the expiry and the capture-ended event, and the request issued by
\* the dispatch carries the exposed transcript.
C22_DispatchedTextIsTextAtExpiry ==
  [][ExpiredAndWaiting =>
       /\ voice'.transcript = voice.transcript
       /\ (VoiceDispatch /\ hist'.lastCall = "accepted") =>
            \E r \in net' \ net : r.question = voice.transcript]_vars

\* C23: while the transcript of a session is empty or only white space, no
\* quiet-period timer is armed and nothing has been submitted for the session,
\* whatever recognition events have arrived and however the session ended.
C23_EmptyTranscriptNoTimerNoSubmission ==
  (voice.mounted /\ Trim(voice.transcript) = << >>) =>
    /\ ~rec.submitTimeout
    /\ hist.sessSubmits = 0

\* a start request made while the capture of the page is starting or active
StartRequestWhileCapturing ==
  /\ StartClick
  /\ rec.state \in {"starting", "active"}

\* C24: startListening never calls the platform's start() while a capture is
\* starting or active: a start request made after the first start() and before the
\* capture-started event is a no-op for the recognition, throws nothing and sets no
\* error state.
C24_SecondStartIsNoOp ==
  [][StartRequestWhileCapturing =>
       /\ ~CallsStart(Cur)
       /\ ~StartThrows(Cur)
       /\ rec' = rec
       /\ voice'.error = voice.error]_vars

\* the typed-input tab is selected while the capture of the voice session is
\* starting or active
SwitchAwayWhileCapturing ==
  /\ ui.activeTab = "voice" /\ ui'.activeTab = "text"
  /\ rec.state \in {"starting", "active"}

\* C25: switching from the voice tab to the typed-input tab while a capture session
\* is active destroys the session: the switch stops the platform capture (the
\* object is no longer starting or active) and cancels its quiet-period timer, and
\* while the typed-input tab is shown no voice submission is dispatched.
C25_SwitchAwayDestroysSession ==
  [][/\ SwitchAwayWhileCapturing =>
          /\ rec'.state \notin {"starting", "active"}
          /\ ~rec'.submitTimeout
     /\ (ui.activeTab = "text" /\ ui'.activeTab = "text") =>
          hist'.sessSubmits = hist.sessSubmits]_vars

\* C26: the submitted flag of the voice session rises only in a step in which the
\* request guard accepts the session's transcript and a request carrying it is
\* issued; it never rises for a submission that the guard drops.
C26_SubmittedMeansAccepted ==
  [][(voice'.mounted /\ ~voice.hasSubmitted /\ voice'.hasSubmitted) =>
       /\ hist'.lastCall = "accepted"
       /\ \E r \in net' \ net : r.question = voice.transcript]_vars

\* C27: in every reachable state of every variant the loading flag is true exactly
\* when a POST /api/ask is outstanding, and where the hook has requestInProgress
\* the two flags are equal; so loading is never false while a request is pending.
C27_LoadingIffOutstanding ==
  /\ api.loading <=> net # {}
  /\ Guarded(variant) => api.loading = api.requestInProgress

\* the request r leaves askQuestion in this step although a submission accepted
\* after it has already left
LateCompletion(r) ==
  /\ r.id \notin Ids(net')
  /\ r.id < nextId - 1
  /\ nextId - 1 \notin Ids(net)

\* C28: the displayed answer or error is the outcome of the most recently accepted
\* submission: when a request completes after a request accepted later than it has
\* completed, its outcome does not replace the answer or the error on display,
\* whatever order the responses arrive in.
C28_EarlierResponseNeverOverwrites ==
  [][\A r \in net : LateCompletion(r) =>
       /\ api'.response = api.response
       /\ api'.error = api.error]_vars

====
